---- MODULE Spec2Model ----
(***************************************************************************)
(* The tool-calling conversation loop of 1_foundations/app.py: Me.chat,    *)
(* Me.handle_tool_call, the module-level tools record_user_details,        *)
(* record_unknown_question and push, and the name lookup through the       *)
(* module's globals().                                                     *)
(*                                                                         *)
(* One chat call is a "turn".  Every local variable of chat and of         *)
(* handle_tool_call is a function of the turn, because each call has its   *)
(* own frame.  The generation endpoint and the Pushover endpoint are the   *)
(* environment: each of their answers is a nondeterministic choice.        *)
(***************************************************************************)
EXTENDS Integers, Sequences, FiniteSets, TLC

(* ------------------------------ bounds -------------------------------- *)
\* tool calls the endpoint asks for over one turn, all responses together
MaxToolCalls == 2
\* endpoint calls (rounds) of one turn
MaxRounds == 3
\* chat calls the model distinguishes; Spec runs the first one alone
Turns == {1, 2}

(* --------------------------- python values ---------------------------- *)
\* Python values are tagged with their type, as json and ** dispatch on it.
PyNone == [type |-> "NoneType"]
PyDict(items) == [type |-> "dict", items |-> items]
PyList == [type |-> "list"]
PyRaise(kind) == [type |-> "raise", error |-> kind]

\* argument payload texts the endpoint can put in a tool call
ArgQuestion == "{\"question\": \"Do you know Rust?\"}"
ArgEmail == "{\"email\": \"a@x.com\"}"
ArgEmailName == "{\"email\": \"a@x.com\", \"name\": \"Ann\"}"
ArgEmailNotes == "{\"email\": \"a@x.com\", \"notes\": \"call me\"}"
ArgEmailExtra == "{\"email\": \"a@x.com\", \"phone\": \"555\"}"
ArgEmailNameNotes ==
  "{\"email\": \"a@x.com\", \"name\": \"Ann\", \"notes\": \"call me\"}"
ArgEmailOdd == "{\"email\": \"not an address\"}"
ArgText == "{\"text\": \"hi\"}"
ArgEmpty == "{}"
ArgList == "[]"
ArgNull == "null"
ArgTruncated == "{\"question\": "
ArgBlank == ""

\* a decoder that answers text that is not JSON with an empty dict
json_loads_lenient(s) ==
  CASE s = ArgQuestion -> PyDict([question |-> "Do you know Rust?"])
    [] s = ArgEmail -> PyDict([email |-> "a@x.com"])
    [] s = ArgEmailName -> PyDict([email |-> "a@x.com", name |-> "Ann"])
    [] s = ArgEmailNotes -> PyDict([email |-> "a@x.com", notes |-> "call me"])
    [] s = ArgEmailExtra -> PyDict([email |-> "a@x.com", phone |-> "555"])
    [] s = ArgEmailNameNotes ->
         PyDict([email |-> "a@x.com", name |-> "Ann", notes |-> "call me"])
    [] s = ArgEmailOdd -> PyDict([email |-> "not an address"])
    [] s = ArgText -> PyDict([text |-> "hi"])
    [] s = ArgEmpty -> PyDict(<<>>)
    [] s = ArgList -> PyList
    [] s = ArgNull -> PyNone
    [] OTHER -> PyDict(<<>>)

\* json.loads on the payload texts above: the decoded value, or the raise
json_loads(s) ==
  CASE s = ArgQuestion -> PyDict([question |-> "Do you know Rust?"])
    [] s = ArgEmail -> PyDict([email |-> "a@x.com"])
    [] s = ArgEmailName -> PyDict([email |-> "a@x.com", name |-> "Ann"])
    [] s = ArgEmailNotes -> PyDict([email |-> "a@x.com", notes |-> "call me"])
    [] s = ArgEmailExtra -> PyDict([email |-> "a@x.com", phone |-> "555"])
    [] s = ArgEmailNameNotes ->
         PyDict([email |-> "a@x.com", name |-> "Ann", notes |-> "call me"])
    [] s = ArgEmailOdd -> PyDict([email |-> "not an address"])
    [] s = ArgText -> PyDict([text |-> "hi"])
    [] s = ArgEmpty -> PyDict(<<>>)
    [] s = ArgList -> PyList
    [] s = ArgNull -> PyNone
    [] OTHER -> PyRaise("JSONDecodeError")

\* json.dumps on the values a tool call can produce
json_dumps(v) ==
  CASE v.type = "NoneType" -> "null"
    [] v.type = "list" -> "[]"
    [] v.type = "dict" /\ DOMAIN v.items = {} -> "{}"
    [] v.type = "dict" /\ DOMAIN v.items = {"recorded"} ->
         "{\"recorded\": \"" \o v.items.recorded \o "\"}"

(* ------------------------- module namespace --------------------------- *)
\* the two defaults of record_user_details taken for each other
Signature_swapped ==
  [ push |-> [required |-> {"text"}, defaults |-> <<>>],
    record_user_details |->
      [required |-> {"email"},
       defaults |-> [name |-> "not provided", notes |-> "Name not provided"]],
    record_unknown_question |-> [required |-> {"question"}, defaults |-> <<>>] ]

\* the def statements of the module: required parameters and the defaults
Signature ==
  [ push |-> [required |-> {"text"}, defaults |-> <<>>],
    record_user_details |->
      [required |-> {"email"},
       defaults |-> [name |-> "Name not provided", notes |-> "not provided"]],
    record_unknown_question |-> [required |-> {"question"}, defaults |-> <<>>] ]

\* the module-level bindings a tool name is looked up in, with the kind of
\* object each is bound to
ModuleGlobals ==
  [ push |-> "function",
    record_user_details |-> "function",
    record_unknown_question |-> "function",
    record_user_details_json |-> "dict",
    record_unknown_question_json |-> "dict",
    tools |-> "list" ]

\* globals().get(tool_name): the bound object, or None
globals_get(tool_name) ==
  IF tool_name \in DOMAIN ModuleGlobals THEN tool_name ELSE "None"

\* truth value of the looked-up object in "if tool"
Truthy(tool) == tool # "None"

Callable(tool) == tool \in DOMAIN ModuleGlobals /\ ModuleGlobals[tool] = "function"

\* a binding that drops the keys the function does not take, fills a missing
\* parameter with an empty text and takes a value that is no mapping as {}
BindArguments_lenient(tool, arguments) ==
  IF ~Callable(tool) THEN PyRaise("TypeError")
  ELSE LET sig == Signature[tool]
           given == IF arguments.type = "dict" THEN DOMAIN arguments.items
                    ELSE {}
           params == sig.required \cup DOMAIN sig.defaults
       IN PyDict([p \in params |->
                    IF p \in given THEN arguments.items[p]
                    ELSE IF p \in DOMAIN sig.defaults THEN sig.defaults[p]
                    ELSE ""])

\* binding of tool(**arguments): the parameter values, or the TypeError
BindArguments(tool, arguments) ==
  IF ~Callable(tool) \/ arguments.type # "dict" THEN PyRaise("TypeError")
  ELSE LET sig == Signature[tool]
           given == DOMAIN arguments.items
           params == sig.required \cup DOMAIN sig.defaults
       IN IF ~(given \subseteq params) \/ ~(sig.required \subseteq given)
          THEN PyRaise("TypeError")
          ELSE PyDict([p \in params |->
                        IF p \in given THEN arguments.items[p]
                        ELSE sig.defaults[p]])

\* the text each function hands to the notification POST
PushText(tool, bound) ==
  CASE tool = "push" -> bound.items.text
    [] tool = "record_user_details" ->
         "Recording " \o bound.items.name \o " with email " \o bound.items.email
           \o " and notes " \o bound.items.notes
    [] tool = "record_unknown_question" ->
         "Recording " \o bound.items.question

\* the value each function returns when its POST returned
ReturnValue(tool) ==
  IF tool = "push" THEN PyNone ELSE PyDict([recorded |-> "ok"])

\* requests.post either returns a response, whose status the code never
\* looks at, or raises
PostOutcomes == {"returned", "raised"}

(* --------------------------- the environment -------------------------- *)
\* self.system_prompt(): a fixed text once the object is constructed
system_prompt == "You are acting as Mahad Habib Rana."

\* the histories a caller hands over: none, an earlier exchange, and lists
\* that hold a system or a tool message
Histories ==
  { <<>>,
    <<[role |-> "user", content |-> "Hello"],
      [role |-> "assistant", content |-> "Hi, how can I help?"]>>,
    <<[role |-> "system", content |-> "Be brief."]>>,
    <<[role |-> "assistant", content |-> "Hi, how can I help?"],
      [role |-> "tool", content |-> "{}", tool_call_id |-> <<0, 1>>]>> }

SeqsUpTo(S, n) == UNION {[1..k -> S] : k \in 0..n}

UserMessages == {"What is your background?"}

\* what the endpoint can answer
FinishReasons == {"tool_calls", "stop", "length"}

\* the texts of an answer
Contents == {"I have 5 years of experience.", "Logged your question."}

\* the content of a response that asks for tool calls: None
NoContent == "None"

\* the content of an answer cut off at the token limit
CutContent == "I have 5 years of"

\* the contents a response of finish reason f can carry
ContentsOf(f) ==
  CASE f = "tool_calls" -> {NoContent}
    [] f = "length" -> {CutContent}
    [] OTHER -> Contents

\* name and payload of the tool calls the endpoint asks for
ToolCallShapes ==
  { [name |-> "record_unknown_question", arguments |-> ArgQuestion],
    [name |-> "record_user_details", arguments |-> ArgEmail],
    [name |-> "push", arguments |-> ArgText],
    [name |-> "no_such_tool", arguments |-> ArgQuestion],
    [name |-> "record_unknown_question", arguments |-> ArgTruncated],
    [name |-> "record_unknown_question", arguments |-> ArgEmail],
    [name |-> "tools", arguments |-> ArgQuestion],
    [name |-> "record_user_details", arguments |-> ArgEmailName],
    [name |-> "record_user_details", arguments |-> ArgEmailExtra],
    [name |-> "record_unknown_question", arguments |-> ArgEmpty],
    [name |-> "record_unknown_question", arguments |-> ArgList],
    [name |-> "record_user_details", arguments |-> ArgEmpty] }

\* the tool calls of the response of round k: the endpoint gives every call
\* an identifier of its own
ToolCallsOf(k, shapes) ==
  [i \in 1..Len(shapes) |->
     [id |-> <<k, i>>,
      function |-> [name |-> shapes[i].name, arguments |-> shapes[i].arguments]]]

\* response.choices[0] of round k, carrying at most n tool calls
Choices(k, n) ==
  UNION { { [finish_reason |-> f,
             message |-> [role |-> "assistant", content |-> c,
                          tool_calls |-> ToolCallsOf(k, sh)]] :
              c \in ContentsOf(f), sh \in SeqsUpTo(ToolCallShapes, n) } :
          f \in FinishReasons }

\* the tool calls carried by the responses rs, all together
RECURSIVE CallsRequested(_)
CallsRequested(rs) ==
  IF rs = <<>> THEN 0
  ELSE Len(Head(rs).message.tool_calls) + CallsRequested(Tail(rs))

NoChoice ==
  [finish_reason |-> "unset",
   message |-> [role |-> "assistant", content |-> "", tool_calls |-> <<>>]]

(* ------------------------------- state -------------------------------- *)
VARIABLES
  pc,            \* where each chat call stands
  history,       \* the caller's history list, as the caller holds it
  user_message,  \* the message argument of the call
  messages,      \* chat: messages
  choice,        \* chat: choice
  idx,           \* handle_tool_call: position of the for loop
  results,       \* handle_tool_call: results
  retval,        \* <<text>> once chat has returned text
  error,         \* the exception that left chat, or "none"
  sent,          \* the messages argument of every endpoint call, in order
  received,      \* the choice of every endpoint call that answered, in order
  pushed,        \* the notification POSTs issued, in order
  invoked        \* the functions called by handle_tool_call, in order

vars == <<pc, history, user_message, messages, choice, idx, results, retval,
          error, sent, received, pushed, invoked>>

Init ==
  /\ pc = [t \in Turns |-> "idle"]
  /\ history = [t \in Turns |-> <<>>]
  /\ user_message = [t \in Turns |-> ""]
  /\ messages = [t \in Turns |-> <<>>]
  /\ choice = [t \in Turns |-> NoChoice]
  /\ idx = [t \in Turns |-> 0]
  /\ results = [t \in Turns |-> <<>>]
  /\ retval = [t \in Turns |-> <<>>]
  /\ error = [t \in Turns |-> "none"]
  /\ sent = [t \in Turns |-> <<>>]
  /\ received = [t \in Turns |-> <<>>]
  /\ pushed = [t \in Turns |-> <<>>]
  /\ invoked = [t \in Turns |-> <<>>]

(* ------------------------------- chat --------------------------------- *)
\* the history put in front of the system message
BuildMessages_historyfirst(H, M) ==
  H \o <<[role |-> "system", content |-> system_prompt]>>
    \o <<[role |-> "user", content |-> M]>>

\* lines 138-142: the list chat builds
BuildMessages(H, M) ==
  <<[role |-> "system", content |-> system_prompt]>> \o H
    \o <<[role |-> "user", content |-> M]>>

\* a caller calls chat(message, history) with a history of hs and a message
\* of ms
Begin(t, hs, ms) ==
  /\ pc[t] = "idle"
  /\ \E H \in hs, M \in ms :
       /\ history' = [history EXCEPT ![t] = H]
       /\ user_message' = [user_message EXCEPT ![t] = M]
       /\ messages' = [messages EXCEPT ![t] = BuildMessages(H, M)]
  /\ pc' = [pc EXCEPT ![t] = "await"]
  /\ UNCHANGED <<choice, idx, results, retval, error, sent, received, pushed,
                 invoked>>

\* a caller calls chat with any history and message
ChatStart(t) == Begin(t, Histories, UserMessages)

\* chat returning the finish reason in place of the content
ReturnedText_reason(c) == c.finish_reason

\* line 162: the value chat returns
ReturnedText(c) == c.message.content

\* a loop that gives up asking after its second round
Continues_capped(c, k) == c.finish_reason = "tool_calls" /\ k < 2

\* a loop that goes on whenever the response carries tool calls
Continues_anycalls(c, k) == Len(c.message.tool_calls) > 0

\* lines 145, 153, 160: whether the loop goes on after the response c of
\* round k; the round number plays no part, the loop has no cap
Continues(c, k) == c.finish_reason = "tool_calls"

\* lines 146-153, 160-162: one endpoint call that answers with one of the
\* choices cs, and the branch on its finish reason
Respond(t, cs) ==
  /\ pc[t] = "await"
  /\ Len(sent[t]) < MaxRounds
  /\ sent' = [sent EXCEPT ![t] = Append(@, messages[t])]
  /\ \E c \in cs :
       /\ choice' = [choice EXCEPT ![t] = c]
       /\ received' = [received EXCEPT ![t] = Append(@, c)]
       /\ IF Continues(c, Len(sent[t]) + 1)
          THEN /\ pc' = [pc EXCEPT ![t] = "tools"]
               /\ idx' = [idx EXCEPT ![t] = 1]
               /\ results' = [results EXCEPT ![t] = <<>>]
               /\ UNCHANGED retval
          ELSE /\ pc' = [pc EXCEPT ![t] = "done"]
               /\ retval' = [retval EXCEPT ![t] = <<ReturnedText(c)>>]
               /\ UNCHANGED <<idx, results>>
  /\ UNCHANGED <<history, user_message, messages, error, pushed, invoked>>

\* the endpoint answers with any of its choices
Create(t) ==
  Respond(t, Choices(Len(sent[t]) + 1,
                     MaxToolCalls - CallsRequested(received[t])))

\* the endpoint call raises and the loop calls again
CreateFails_retry(t) ==
  /\ pc[t] = "await"
  /\ Len(sent[t]) < MaxRounds
  /\ sent' = [sent EXCEPT ![t] = Append(@, messages[t])]
  /\ UNCHANGED <<pc, error, history, user_message, messages, choice, idx,
                 results, retval, received, pushed, invoked>>

\* lines 146-150: the endpoint call raises
CreateFails(t) ==
  /\ pc[t] = "await"
  /\ Len(sent[t]) < MaxRounds
  /\ sent' = [sent EXCEPT ![t] = Append(@, messages[t])]
  /\ pc' = [pc EXCEPT ![t] = "failed"]
  /\ error' = [error EXCEPT ![t] = "APIError"]
  /\ UNCHANGED <<history, user_message, messages, choice, idx, results,
                 retval, received, pushed, invoked>>

(* -------------------------- handle_tool_call -------------------------- *)
\* every result tagged with the identifier of the first call of the round
ToolMessage_firstid(tool_call, result) ==
  [role |-> "tool", content |-> json_dumps(result),
   tool_call_id |-> <<tool_call.id[1], 1>>]

\* lines 109-113: the message appended to results
ToolMessage(tool_call, result) ==
  [role |-> "tool", content |-> json_dumps(result), tool_call_id |-> tool_call.id]

\* an unbound name answered with None in place of the empty dict
NotFoundResult_none == PyNone

\* line 107: the result of a call whose name is bound to nothing
NotFoundResult == PyDict(<<>>)

\* lines 102-107 for one tool call, given what its POST would do: the error
\* raised or the result, the function called, and the POST issued (tagged
\* with the call it was issued for)
CallOutcome(tool_call, post) ==
  LET tool_name == tool_call.function.name
      arguments == json_loads(tool_call.function.arguments)
      tool == globals_get(tool_name)
      none == [error |-> "none", result |-> NotFoundResult,
               called |-> <<>>, posts |-> <<>>]
  IN IF arguments.type = "raise"
     THEN [none EXCEPT !.error = arguments.error]
     ELSE IF ~Truthy(tool) THEN none
     ELSE LET bound == BindArguments(tool, arguments)
          IN IF bound.type = "raise"
             THEN [none EXCEPT !.error = bound.error]
             ELSE [error |-> IF post = "raised" THEN "ConnectionError" ELSE "none",
                   result |-> ReturnValue(tool),
                   called |-> <<tool>>,
                   posts |-> <<[id |-> tool_call.id,
                                text |-> PushText(tool, bound),
                                outcome |-> post]>>]

\* the notifications of a response withdrawn when one of its calls fails
Notified_undone(before, tool_call, o) ==
  IF o.error # "none"
  THEN SelectSeq(before, LAMBDA p : p.id[1] # tool_call.id[1])
  ELSE before \o o.posts

\* lines 13-22, 107: the POSTs issued so far once tool_call has been worked
\* on with outcome o; a POST that went out stays out
Notified(before, tool_call, o) == before \o o.posts

\* the calls taken from the last one to the first
NextCall_reversed(tool_calls, i) == tool_calls[Len(tool_calls) + 1 - i]

\* line 101: the call the i-th iteration of the for loop works on
NextCall(tool_calls, i) == tool_calls[i]

\* lines 101-113: one iteration of the for loop
ToolStep(t) ==
  /\ pc[t] = "tools"
  /\ idx[t] <= Len(choice[t].message.tool_calls)
  /\ LET tool_call == NextCall(choice[t].message.tool_calls, idx[t])
     IN \E post \in PostOutcomes :
          LET o == CallOutcome(tool_call, post)
          IN /\ invoked' = [invoked EXCEPT ![t] =
                              @ \o [i \in 1..Len(o.called) |->
                                      [id |-> tool_call.id, tool |-> o.called[i]]]]
             /\ pushed' = [pushed EXCEPT ![t] = Notified(@, tool_call, o)]
             /\ IF o.error # "none"
                THEN /\ pc' = [pc EXCEPT ![t] = "failed"]
                     /\ error' = [error EXCEPT ![t] = o.error]
                     /\ UNCHANGED <<idx, results>>
                ELSE /\ results' = [results EXCEPT ![t] =
                                      Append(@, ToolMessage(tool_call, o.result))]
                     /\ idx' = [idx EXCEPT ![t] = @ + 1]
                     /\ UNCHANGED <<pc, error>>
  /\ UNCHANGED <<history, user_message, messages, choice, retval, sent,
                 received>>

\* the results appended before the assistant message that asked for them
Extended_resultsfirst(msgs, c, res) == (msgs \o res) \o <<c.message>>

\* the results appended without the assistant message
Extended_resultsonly(msgs, c, res) == msgs \o res

\* lines 157-158: what the round appends to messages
Extended(msgs, c, res) == Append(msgs, c.message) \o res

\* messages built by extending the caller's list in place, so that what the
\* round appends shows in it
CallerList_aliased(H, msgs) == SubSeq(msgs, 2, Len(msgs))

\* lines 138-142, 157-158: the caller's list H once msgs has been extended;
\* + built msgs as a new list, so appending to msgs leaves H as it was
CallerList(H, msgs) == H

\* messages kept in one list that every running chat call appends to
AppendResults_shared(t) ==
  /\ pc[t] = "tools"
  /\ idx[t] > Len(choice[t].message.tool_calls)
  /\ messages' = [u \in Turns |->
                    IF pc[u] = "idle" THEN messages[u]
                    ELSE Extended(messages[u], choice[t], results[t])]
  /\ history' = [history EXCEPT ![t] =
                    CallerList(@, Extended(messages[t], choice[t], results[t]))]
  /\ pc' = [pc EXCEPT ![t] = "await"]
  /\ UNCHANGED <<user_message, choice, idx, results, retval, error,
                 sent, received, pushed, invoked>>

\* lines 114, 156-158: the loop is over, chat appends and goes round again
AppendResults(t) ==
  /\ pc[t] = "tools"
  /\ idx[t] > Len(choice[t].message.tool_calls)
  /\ messages' = [messages EXCEPT ![t] = Extended(@, choice[t], results[t])]
  /\ history' = [history EXCEPT ![t] =
                    CallerList(@, Extended(messages[t], choice[t], results[t]))]
  /\ pc' = [pc EXCEPT ![t] = "await"]
  /\ UNCHANGED <<user_message, choice, idx, results, retval, error,
                 sent, received, pushed, invoked>>

Step(t) ==
  \/ ChatStart(t)
  \/ Create(t)
  \/ CreateFails(t)
  \/ ToolStep(t)
  \/ AppendResults(t)

\* one chat call running alone
Next == Step(1)

Spec == Init /\ [][Next]_vars

(* ------------------- record_user_details on its own ------------------- *)
\* the payloads record_user_details is tried on: the email alone, with a
\* name, with notes, with both, and an email that is no address
RecordPayloads ==
  {ArgEmail, ArgEmailName, ArgEmailNotes, ArgEmailNameNotes, ArgEmailOdd}

\* responses of round k asking for at most n calls of record_user_details,
\* and the answers that end the turn
RecordChoices(k, n) ==
  { [finish_reason |-> "tool_calls",
     message |-> [role |-> "assistant", content |-> NoContent,
                  tool_calls |-> ToolCallsOf(k, sh)]] :
      sh \in SeqsUpTo({[name |-> "record_user_details", arguments |-> a] :
                         a \in RecordPayloads}, n) }
  \cup { [finish_reason |-> "stop",
          message |-> [role |-> "assistant", content |-> c,
                       tool_calls |-> <<>>]] : c \in Contents }

\* the endpoint asks for record_user_details only
CreateRecord(t) ==
  Respond(t, RecordChoices(Len(sent[t]) + 1,
                           MaxToolCalls - CallsRequested(received[t])))

NextRecord ==
  \/ ChatStart(1)
  \/ CreateRecord(1)
  \/ CreateFails(1)
  \/ ToolStep(1)
  \/ AppendResults(1)

SpecRecord == Init /\ [][NextRecord]_vars

(* -------------------------- two turns at once -------------------------- *)
\* the history and the message of each of two calls served at the same time
ConcHistories ==
  [t \in Turns |->
     IF t = 1
     THEN {<<[role |-> "user", content |-> "Hello"],
             [role |-> "assistant", content |-> "Hi, how can I help?"]>>}
     ELSE {<<>>}]

ConcUserMessages ==
  [t \in Turns |->
     IF t = 1 THEN {"What is your background?"} ELSE {"Do you know Rust?"}]

\* the tool the endpoint asks for in each of the two calls
ConcShapes ==
  [t \in Turns |->
     IF t = 1
     THEN {[name |-> "record_unknown_question", arguments |-> ArgQuestion]}
     ELSE {[name |-> "record_user_details", arguments |-> ArgEmail]}]

\* responses of round k of turn t asking for at most n calls of its tool, and
\* the answers that end the turn
ConcChoices(t, k, n) ==
  { [finish_reason |-> "tool_calls",
     message |-> [role |-> "assistant", content |-> NoContent,
                  tool_calls |-> ToolCallsOf(k, sh)]] :
      sh \in SeqsUpTo(ConcShapes[t], n) }
  \cup { [finish_reason |-> "stop",
          message |-> [role |-> "assistant", content |-> c,
                       tool_calls |-> <<>>]] : c \in Contents }

ChatStartConc(t) == Begin(t, ConcHistories[t], ConcUserMessages[t])

CreateConc(t) ==
  Respond(t, ConcChoices(t, Len(sent[t]) + 1,
                            MaxToolCalls - CallsRequested(received[t])))

\* the steps of the two calls interleave in any order
NextConc ==
  \E t \in Turns :
    \/ ChatStartConc(t)
    \/ CreateConc(t)
    \/ CreateFails(t)
    \/ ToolStep(t)
    \/ AppendResults(t)

SpecConc == Init /\ [][NextConc]_vars

(* ------------------------- notions of the claims ---------------------- *)
\* the tool calls carried by the k-th response of turn t
CallsOf(t, k) == received[t][k].message.tool_calls

\* the k-th response of turn t asked for tool calls
AsksTools(t, k) == received[t][k].finish_reason = "tool_calls"

\* the rounds of turn t that have answered
Rounds(t) == 1..Len(received[t])

\* payload texts that are not JSON
MalformedPayloads == {ArgTruncated, ArgBlank}

\* the names the tool declarations of lines 64-67 advertise
RegisteredTools == {"record_user_details", "record_unknown_question"}

\* the names bound to nothing in the module
UnboundNames == {"no_such_tool"}

\* the serialized result of a recorded call
RecordedOk == "{\"recorded\": \"ok\"}"

(* -------------------------------- C1 ---------------------------------- *)
\* C1: when the first response of a turn does not ask for tool calls, the
\* turn is done, it has returned exactly the content of that response, the
\* endpoint was called exactly once, no function was invoked and no
\* notification was sent.
C1_PlainAnswerReturned ==
  \A t \in Turns :
    (Len(received[t]) >= 1 /\ ~AsksTools(t, 1)) =>
      /\ pc[t] = "done"
      /\ error[t] = "none"
      /\ retval[t] = <<received[t][1].message.content>>
      /\ Len(sent[t]) = 1
      /\ invoked[t] = <<>>
      /\ pushed[t] = <<>>

\* a turn with a history answered "I have 5 years of experience." at once
C1_Witness ==
  \E t \in Turns :
    /\ pc[t] = "done"
    /\ Len(received[t]) = 1
    /\ history[t] # <<>>
    /\ retval[t] = <<"I have 5 years of experience.">>

(* -------------------------------- C2 ---------------------------------- *)
\* C2: when a response carrying N tool calls has been processed without
\* failure, messages is the sequence sent in that round extended by exactly
\* N+1 messages: the assistant message of the response, then N tool messages
\* of which the i-th carries the identifier of the i-th tool call.
C2_RoundAppendsCallsInOrder ==
  \A t \in Turns :
    (pc[t] = "await" /\ Len(received[t]) >= 1) =>
      LET k == Len(received[t])
          before == sent[t][k]
          calls == CallsOf(t, k)
          base == Len(before)
      IN /\ AsksTools(t, k)
         /\ Len(messages[t]) = base + Len(calls) + 1
         /\ SubSeq(messages[t], 1, base) = before
         /\ messages[t][base + 1] = received[t][k].message
         /\ \A i \in 1..Len(calls) :
              /\ messages[t][base + 1 + i].role = "tool"
              /\ messages[t][base + 1 + i].tool_call_id = calls[i].id

\* a response with two tool calls has been processed and appended
C2_Witness ==
  \E t \in Turns :
    /\ pc[t] = "await"
    /\ Len(received[t]) = 1
    /\ Len(CallsOf(t, 1)) = 2
    /\ Len(messages[t]) = Len(sent[t][1]) + 3

(* -------------------------------- C3 ---------------------------------- *)
\* C3: a tool call whose name is bound to nothing gets the tool result "{}",
\* no notification and no invocation; it never fails the turn, so the calls
\* after it are processed and the round is appended for the next endpoint
\* call.
C3_UnboundNameYieldsEmpty ==
  \A t \in Turns :
    (Len(received[t]) >= 1 /\ AsksTools(t, Len(received[t]))) =>
      LET calls == CallsOf(t, Len(received[t]))
          unbound(i) == /\ calls[i].function.name \in UnboundNames
                        /\ calls[i].function.arguments \notin MalformedPayloads
      IN \A i \in 1..Len(calls) :
           unbound(i) =>
             /\ \A j \in 1..Len(pushed[t]) : pushed[t][j].id # calls[i].id
             /\ \A j \in 1..Len(invoked[t]) : invoked[t][j].id # calls[i].id
             /\ (i < idx[t]) =>
                  /\ results[t][i].content = "{}"
                  /\ results[t][i].tool_call_id = calls[i].id
             /\ (i = idx[t]) => pc[t] = "tools"

\* an unbound name came first, the call after it was executed, and the
\* endpoint was called again with "{}" as the result of the unbound name
C3_Witness ==
  \E t \in Turns :
    /\ Len(sent[t]) = 2
    /\ Len(CallsOf(t, 1)) = 2
    /\ CallsOf(t, 1)[1].function.name = "no_such_tool"
    /\ CallsOf(t, 1)[2].function.name = "record_unknown_question"
    /\ Len(pushed[t]) = 1
    /\ \E j \in 1..Len(sent[t][2]) :
         /\ sent[t][2][j].role = "tool"
         /\ sent[t][2][j].content = "{}"

(* -------------------------------- C4 ---------------------------------- *)
\* the tool calls of the response turn t is processing or has processed last
LastCalls(t) == CallsOf(t, Len(received[t]))

\* the function handle_tool_call called for the tool call with identifier id
InvokedFor(t, id) ==
  {invoked[t][j].tool : j \in {n \in 1..Len(invoked[t]) : invoked[t][n].id = id}}

\* C4 (as claimed): a tool call whose name is not one of the two registered
\* tools resolves to nothing: no function is called for it, no notification
\* is sent for it, and it raises no error.
C4_OnlyRegisteredNamesResolve ==
  \A t \in Turns :
    (Len(received[t]) >= 1 /\ AsksTools(t, Len(received[t]))) =>
      \A i \in 1..Len(LastCalls(t)) :
        (/\ LastCalls(t)[i].function.name \notin RegisteredTools
         /\ LastCalls(t)[i].function.arguments \notin MalformedPayloads) =>
          /\ InvokedFor(t, LastCalls(t)[i].id) = {}
          /\ \A j \in 1..Len(pushed[t]) : pushed[t][j].id # LastCalls(t)[i].id
          /\ ~(i = idx[t] /\ pc[t] = "failed")

(* -------------------------------- C5 ---------------------------------- *)
\* the tool calls of turn t asked for under finish reason tool_calls whose
\* name is one of the registered tools
RegisteredCalls(t) ==
  {<<k, i>> \in Rounds(t) \X (1..MaxToolCalls + 1) :
     /\ AsksTools(t, k)
     /\ i <= Len(CallsOf(t, k))
     /\ CallsOf(t, k)[i].function.name \in RegisteredTools}

\* C5 (as claimed): when a turn completes, the number of notifications sent
\* is the number of tool calls that resolved to record_user_details or
\* record_unknown_question.
C5_NotificationsMatchRegisteredCalls ==
  \A t \in Turns :
    pc[t] = "done" => Len(pushed[t]) = Cardinality(RegisteredCalls(t))

(* -------------------------------- C6 ---------------------------------- *)
\* the turn failed while handling the tool call with identifier id
FailedAt(t, id) ==
  /\ pc[t] = "failed"
  /\ error[t] # "APIError"
  /\ LastCalls(t)[idx[t]].id = id

\* C6 (as claimed): whether the POST of a recording tool succeeds or fails,
\* the call yields {"recorded": "ok"} as its tool result and the turn does
\* not fail at it.
C6_SendFailureSwallowed ==
  \A t \in Turns :
    \A j \in 1..Len(pushed[t]) :
      (InvokedFor(t, pushed[t][j].id) \subseteq RegisteredTools) =>
        /\ ~FailedAt(t, pushed[t][j].id)
        /\ LET all == messages[t] \o results[t]
           IN \E n \in 1..Len(all) :
                /\ all[n].role = "tool"
                /\ all[n].tool_call_id = pushed[t][j].id
                /\ all[n].content = RecordedOk

(* -------------------------------- C7 ---------------------------------- *)
\* the identifiers of the tool calls a message carries
ToolCallIds(m) ==
  IF "tool_calls" \in DOMAIN m
  THEN {m.tool_calls[i].id : i \in 1..Len(m.tool_calls)}
  ELSE {}

NoToolRole(H) == \A n \in 1..Len(H) : H[n].role # "tool"

\* C7: when the history holds no tool message, every tool message of every
\* sequence passed to the endpoint comes after an assistant message, with
\* only tool messages in between, and carries the identifier of one of the
\* tool calls of that assistant message.
C7_ToolResultsFollowTheirCalls ==
  \A t \in Turns :
    NoToolRole(history[t]) =>
      \A k \in 1..Len(sent[t]) :
        LET s == sent[t][k]
        IN \A j \in 1..Len(s) :
             s[j].role = "tool" =>
               \E a \in 1..(j - 1) :
                 /\ s[a].role = "assistant"
                 /\ \A b \in (a + 1)..(j - 1) : s[b].role = "tool"
                 /\ s[j].tool_call_id \in ToolCallIds(s[a])

\* after an earlier exchange, a round of two tool calls was sent back
C7_Witness ==
  \E t \in Turns :
    /\ Len(history[t]) = 2
    /\ NoToolRole(history[t])
    /\ Len(sent[t]) >= 2
    /\ Len(sent[t][2]) = Len(sent[t][1]) + 3
    /\ sent[t][2][Len(sent[t][2])].role = "tool"

(* -------------------------------- C8 ---------------------------------- *)
\* C8: the sequence passed to round k+1 is the sequence passed to round k,
\* unchanged, followed by at least one more message.
C8_SentSequencesGrow ==
  \A t \in Turns :
    \A k \in 1..(Len(sent[t]) - 1) :
      /\ Len(sent[t][k + 1]) > Len(sent[t][k])
      /\ SubSeq(sent[t][k + 1], 1, Len(sent[t][k])) = sent[t][k]

\* a response with zero tool calls, then a response with two, were sent back
C8_Witness ==
  \E t \in Turns :
    /\ Len(sent[t]) = 3
    /\ CallsOf(t, 1) = <<>>
    /\ Len(sent[t][2]) = Len(sent[t][1]) + 1
    /\ Len(sent[t][3]) = Len(sent[t][2]) + 3

(* -------------------------------- C9 ---------------------------------- *)
SystemCount(s) == Cardinality({n \in 1..Len(s) : s[n].role = "system"})

\* the sequence s starts with the system message, then the history of turn t
\* in its order, then the user message of turn t
StartsAsBuilt(t, s) ==
  /\ Len(s) >= Len(history[t]) + 2
  /\ s[1] = [role |-> "system", content |-> system_prompt]
  /\ SubSeq(s, 2, Len(history[t]) + 1) = history[t]
  /\ s[Len(history[t]) + 2] = [role |-> "user", content |-> user_message[t]]

\* C9 (as claimed): every sequence passed to the endpoint holds exactly one
\* system message, in first place, followed by the history and then by the
\* user message, whatever the history.
C9_ExactlyOneSystemMessage ==
  \A t \in Turns :
    \A k \in 1..Len(sent[t]) :
      /\ SystemCount(sent[t][k]) = 1
      /\ StartsAsBuilt(t, sent[t][k])

\* C9 (amended): every sequence passed to the endpoint starts with the system
\* message, followed by the history in its order and then by the user
\* message; it holds one system message more than the history does, so
\* exactly one when the history holds none.
C9_SystemFirstThenHistory ==
  \A t \in Turns :
    \A k \in 1..Len(sent[t]) :
      /\ StartsAsBuilt(t, sent[t][k])
      /\ SystemCount(sent[t][k]) = 1 + SystemCount(history[t])

\* an earlier exchange without system message, sent in two rounds
C9_Witness ==
  \E t \in Turns :
    /\ Len(history[t]) = 2
    /\ SystemCount(history[t]) = 0
    /\ Len(sent[t]) = 2
    /\ SystemCount(sent[t][2]) = 1

(* -------------------------------- C10 --------------------------------- *)
\* C10: a tool call whose payload is not JSON is never got past, so neither
\* it nor a later call of its response gets a tool result; once the loop has
\* tried it the turn has failed with the decoding error, has returned no
\* text, has appended nothing of that response and calls the endpoint no
\* more.
C10_MalformedPayloadFailsTurn ==
  \A t \in Turns :
    (Len(received[t]) >= 1 /\ AsksTools(t, Len(received[t]))) =>
      \A i \in 1..Len(LastCalls(t)) :
        LastCalls(t)[i].function.arguments \in MalformedPayloads =>
          /\ idx[t] <= i
          /\ Len(results[t]) < i
          /\ (idx[t] = i /\ pc[t] # "tools") =>
               /\ pc[t] = "failed"
               /\ error[t] = "JSONDecodeError"
               /\ retval[t] = <<>>
               /\ Len(sent[t]) = Len(received[t])
               /\ messages[t] = sent[t][Len(sent[t])]

\* the second call of a response had a truncated payload: the first call was
\* executed, then the turn failed
C10_Witness ==
  \E t \in Turns :
    /\ pc[t] = "failed"
    /\ error[t] = "JSONDecodeError"
    /\ idx[t] = 2
    /\ Len(pushed[t]) = 1
    /\ LastCalls(t)[2].function.arguments = ArgTruncated

(* -------------------------------- C11 --------------------------------- *)
\* C11: every round issues exactly one endpoint call; when that call raises,
\* in the first round or a later one, the turn has failed with its error,
\* has returned no text, and the failed call stays the last one.
C11_EndpointFailureEndsTurn ==
  \A t \in Turns :
    IF pc[t] = "failed" /\ error[t] = "APIError"
    THEN /\ Len(sent[t]) = Len(received[t]) + 1
         /\ retval[t] = <<>>
         /\ messages[t] = sent[t][Len(sent[t])]
    ELSE Len(sent[t]) = Len(received[t])

\* the endpoint answered the first round, a tool ran, and the second call
\* raised
C11_Witness ==
  \E t \in Turns :
    /\ pc[t] = "failed"
    /\ error[t] = "APIError"
    /\ Len(sent[t]) = 2
    /\ Len(pushed[t]) = 1

(* -------------------------------- C12 --------------------------------- *)
\* C12: the turn is done exactly from the first response that does not ask
\* for tool calls on: every earlier response asked for them, the endpoint was
\* called once per response (k tool rounds, k+1 calls), and the text returned
\* is the content of that response and stays so; a turn whose responses all
\* asked for tool calls, and in which nothing failed, has not ended, however
\* many rounds it has made.
C12_EndsAtFirstPlainAnswer ==
  \A t \in Turns :
    LET n == Len(received[t])
    IN /\ \A k \in 1..n :
            ~AsksTools(t, k) =>
              /\ k = n
              /\ pc[t] = "done"
              /\ Len(sent[t]) = k
              /\ retval[t] = <<received[t][k].message.content>>
       /\ pc[t] = "done" => (n >= 1 /\ ~AsksTools(t, n))
       /\ pc[t] = "failed" => error[t] # "none"
       /\ error[t] # "none" => pc[t] = "failed"
       /\ (pc[t] # "idle" /\ error[t] = "none" /\ \A k \in 1..n : AsksTools(t, k))
            => pc[t] \in {"await", "tools"}

\* two tool rounds, then the answer of the third endpoint call
C12_Witness ==
  \E t \in Turns :
    /\ pc[t] = "done"
    /\ Len(sent[t]) = 3
    /\ AsksTools(t, 1)
    /\ AsksTools(t, 2)
    /\ retval[t] = <<"Logged your question.">>

(* -------------------------------- C13 --------------------------------- *)
\* the tool call of turn t that carries the identifier id
CallById(t, id) == CallsOf(t, id[1])[id[2]]

\* the notification text record_user_details is to send for each payload
ExpectedRecordText ==
  [p \in RecordPayloads |->
     CASE p = ArgEmail ->
            "Recording Name not provided with email a@x.com and notes not provided"
       [] p = ArgEmailName ->
            "Recording Ann with email a@x.com and notes not provided"
       [] p = ArgEmailNotes ->
            "Recording Name not provided with email a@x.com and notes call me"
       [] p = ArgEmailNameNotes ->
            "Recording Ann with email a@x.com and notes call me"
       [] p = ArgEmailOdd ->
            "Recording Name not provided with email not an address and notes not provided"]

\* C13: record_user_details called with the email alone sends "Name not
\* provided" for the name and "not provided" for the notes; a name or notes
\* in the payload replaces its own placeholder only; the email is sent as
\* given, address or not, and every such call is executed.
C13_RecordTextUsesPlaceholders ==
  \A t \in Turns :
    /\ \A j \in 1..Len(pushed[t]) :
         LET call == CallById(t, pushed[t][j].id)
         IN (/\ call.function.name = "record_user_details"
             /\ call.function.arguments \in RecordPayloads) =>
              pushed[t][j].text = ExpectedRecordText[call.function.arguments]
    /\ (Len(received[t]) >= 1 /\ AsksTools(t, Len(received[t]))) =>
         \A i \in 1..Len(CallsOf(t, Len(received[t]))) :
           LET call == CallsOf(t, Len(received[t]))[i]
           IN (/\ i < idx[t]
               /\ call.function.name = "record_user_details"
               /\ call.function.arguments \in RecordPayloads) =>
                \E j \in 1..Len(pushed[t]) : pushed[t][j].id = call.id

\* the email alone, then an email that is no address, were both recorded
C13_Witness ==
  \E t \in Turns :
    /\ Len(pushed[t]) = 2
    /\ pushed[t][1].text =
         "Recording Name not provided with email a@x.com and notes not provided"
    /\ pushed[t][2].text =
         "Recording Name not provided with email not an address and notes not provided"
    /\ pc[t] = "done"

(* -------------------------------- C14 --------------------------------- *)
\* what a round with the response c appends when all its calls are recorded
AppendedBy(c) ==
  <<c.message>> \o
    [i \in 1..Len(c.message.tool_calls) |->
       [role |-> "tool", content |-> RecordedOk,
        tool_call_id |-> c.message.tool_calls[i].id]]

RECURSIVE AppendedByAll(_)
AppendedByAll(rs) ==
  IF rs = <<>> THEN <<>> ELSE AppendedBy(Head(rs)) \o AppendedByAll(Tail(rs))

\* the responses of turn t whose round has been appended to its messages
AppendedRounds(t) ==
  IF pc[t] = "await" \/ (pc[t] = "failed" /\ error[t] = "APIError")
  THEN received[t]
  ELSE SubSeq(received[t], 1, Len(received[t]) - 1)

\* the messages of turn t as its own inputs and its own responses make them
OwnMessages(t) ==
  <<[role |-> "system", content |-> system_prompt]>> \o history[t]
    \o <<[role |-> "user", content |-> user_message[t] ]>>
    \o AppendedByAll(AppendedRounds(t))

\* the notification text of the tool calls of the two turns
OwnText(call) ==
  IF call.function.name = "record_unknown_question"
  THEN "Recording Do you know Rust?"
  ELSE "Recording Name not provided with email a@x.com and notes not provided"

\* C14: with two turns interleaved in any order, the messages of each turn
\* are its own system message, history and user message followed by the
\* assistant and tool messages of its own rounds, its notifications are those
\* of its own tool calls, and the text it returns is the content of its own
\* last response: what the turn yields running alone on the same responses.
C14_TurnsShareNothing ==
  \A t \in Turns :
    pc[t] # "idle" =>
      /\ history[t] \in ConcHistories[t]
      /\ user_message[t] \in ConcUserMessages[t]
      /\ messages[t] = OwnMessages(t)
      /\ \A k \in 1..Len(sent[t]) :
           sent[t][k] = SubSeq(messages[t], 1, Len(sent[t][k]))
      /\ \A j \in 1..Len(pushed[t]) :
           pushed[t][j].text = OwnText(CallById(t, pushed[t][j].id))
      /\ pc[t] = "tools" =>
           \A j \in 1..Len(results[t]) :
             results[t][j].tool_call_id = LastCalls(t)[j].id
      /\ pc[t] = "done" =>
           retval[t] = <<received[t][Len(received[t])].message.content>>

\* both turns are inside a tool round at the same time, each with one call
\* done and one to go
C14_Witness ==
  /\ pc[1] = "tools"
  /\ pc[2] = "tools"
  /\ Len(results[1]) = 1
  /\ Len(results[2]) = 1
  /\ Len(LastCalls(1)) = 2
  /\ Len(LastCalls(2)) = 2

(* -------------------------------- C15 --------------------------------- *)
\* the tool calls of the responses rs, one after the other
RECURSIVE AllCalls(_)
AllCalls(rs) ==
  IF rs = <<>> THEN <<>>
  ELSE Head(rs).message.tool_calls \o AllCalls(Tail(rs))

\* the tool calls turn t has worked on so far, in the order the endpoint
\* asked for them: those of the earlier rounds and, of the last response,
\* those the for loop has reached
WorkedOn(t) ==
  LET n == Len(received[t])
      last == IF n = 0 THEN <<>> ELSE received[t][n].message.tool_calls
      reached ==
        CASE pc[t] = "tools" -> idx[t] - 1
          [] pc[t] = "failed" /\ error[t] # "APIError" -> idx[t]
          [] pc[t] = "done" -> 0
          [] OTHER -> Len(last)
  IN AllCalls(SubSeq(received[t], 1, n - 1)) \o SubSeq(last, 1, reached)

\* the names and payloads for which a notification POST is issued
SendingShapes ==
  { <<"record_unknown_question", ArgQuestion>>,
    <<"record_user_details", ArgEmail>>,
    <<"record_user_details", ArgEmailName>>,
    <<"push", ArgText>> }

Sends(call) == <<call.function.name, call.function.arguments>> \in SendingShapes

\* C15: over a turn the notifications are issued for exactly the tool calls
\* worked on that reach a notification, in the order the endpoint asked for
\* them within a response and across rounds, the tool results of a round are
\* collected in that order, and the messages sent at round k+1 already hold a
\* tool result for every tool call of round k.
C15_CallsExecutedInRequestOrder ==
  \A t \in Turns :
    /\ [j \in 1..Len(pushed[t]) |-> pushed[t][j].id]
         = [j \in 1..Len(SelectSeq(WorkedOn(t), Sends)) |->
              SelectSeq(WorkedOn(t), Sends)[j].id]
    /\ (pc[t] \in {"tools", "await"} /\ Len(received[t]) >= 1) =>
         /\ \A j \in 1..Len(results[t]) :
              results[t][j].tool_call_id = LastCalls(t)[j].id
         /\ pc[t] = "await" => Len(results[t]) = Len(LastCalls(t))
    /\ \A k \in 1..(Len(sent[t]) - 1) :
         \A i \in 1..Len(CallsOf(t, k)) :
           \E n \in 1..Len(sent[t][k + 1]) :
             /\ sent[t][k + 1][n].role = "tool"
             /\ sent[t][k + 1][n].tool_call_id = CallsOf(t, k)[i].id

\* two rounds have been appended, each with one call that sent a
\* notification, and the third endpoint call has been issued
C15_Witness ==
  /\ Len(sent[1]) = 3
  /\ Len(pushed[1]) = 2
  /\ pushed[1][1].id = <<1, 1>>
  /\ pushed[1][2].id = <<2, 1>>

(* -------------------------------- C16 --------------------------------- *)
\* the messages of turn t that answer the tool call with identifier id
AnswersTo(t, id) ==
  {n \in 1..Len(messages[t]) :
     messages[t][n].role = "tool" /\ messages[t][n].tool_call_id = id}

\* the tool call with identifier id of turn t has been worked on: a function
\* was called for it, a notification was issued for it or it was answered
Touched(t, id) ==
  \/ \E j \in 1..Len(invoked[t]) : invoked[t][j].id = id
  \/ \E j \in 1..Len(pushed[t]) : pushed[t][j].id = id
  \/ \E j \in 1..Len(results[t]) : results[t][j].tool_call_id = id
  \/ AnswersTo(t, id) # {}

\* C16: a response whose finish reason is not "tool_calls" is the last of
\* its turn, the turn returns its content, and none of the tool calls it
\* carries is worked on or answered; a response whose finish reason is
\* "tool_calls" does not end the turn with an answer, and once its round is
\* over every tool call it carries has its tool result in the messages.
C16_ToolsRunIffFinishReasonToolCalls ==
  \A t \in Turns :
    \A k \in 1..Len(received[t]) :
      LET c == received[t][k]
          calls == c.message.tool_calls
      IN IF c.finish_reason # "tool_calls"
         THEN /\ k = Len(received[t])
              /\ pc[t] = "done"
              /\ retval[t] = <<c.message.content>>
              /\ messages[t] = sent[t][k]
              /\ \A i \in 1..Len(calls) : ~Touched(t, calls[i].id)
         ELSE /\ k = Len(received[t]) => pc[t] \in {"tools", "await", "failed"}
              /\ (k < Len(received[t]) \/ pc[t] = "await") =>
                   \A i \in 1..Len(calls) : AnswersTo(t, calls[i].id) # {}

\* the turn has ended with the content of a response that carried a call of
\* a registered tool with a payload that fits, and nothing was done for it
C16_Witness ==
  /\ pc[1] = "done"
  /\ Len(received[1]) = 2
  /\ received[1][2].finish_reason = "length"
  /\ Len(received[1][2].message.tool_calls) = 1
  /\ received[1][2].message.tool_calls[1].function.name = "record_user_details"
  /\ received[1][2].message.tool_calls[1].function.arguments = ArgEmail
  /\ Len(pushed[1]) = 1

(* -------------------------------- C17 --------------------------------- *)
\* the names and payloads at which handling a tool call raises before any
\* notification: the payload does not decode, does not fit the function, or
\* the name is bound to something that cannot be called
RaisingShapes ==
  { <<"record_unknown_question", ArgTruncated>>,
    <<"record_unknown_question", ArgEmail>>,
    <<"record_unknown_question", ArgEmpty>>,
    <<"record_unknown_question", ArgList>>,
    <<"record_user_details", ArgEmailExtra>>,
    <<"record_user_details", ArgEmpty>>,
    <<"tools", ArgQuestion>> }

Raises(call) == <<call.function.name, call.function.arguments>> \in RaisingShapes

\* the notifications of turn t issued for the tool call with identifier id
PushedFor(t, id) ==
  {j \in 1..Len(pushed[t]) : pushed[t][j].id = id}

\* C17: when handling the tool call at position k of a response fails,
\* because its payload or name raises or because its notification POST
\* raises, the notifications of the calls before it have gone out and stay
\* recorded as sent, the calls after it are never worked on, and the messages
\* are still those sent to the endpoint: neither the assistant message nor
\* any tool result of the response has been appended.
C17_FailureLeavesEarlierCallsDone ==
  \A t \in Turns :
    (pc[t] = "failed" /\ error[t] # "APIError") =>
      LET calls == LastCalls(t)
          k == idx[t]
      IN /\ k \in 1..Len(calls)
         /\ IF error[t] = "ConnectionError"
            THEN /\ Sends(calls[k])
                 /\ \E j \in PushedFor(t, calls[k].id) :
                      pushed[t][j].outcome = "raised"
            ELSE /\ Raises(calls[k])
                 /\ PushedFor(t, calls[k].id) = {}
         /\ \A i \in 1..(k - 1) :
              /\ ~Raises(calls[i])
              /\ Sends(calls[i]) =>
                   \E j \in PushedFor(t, calls[i].id) :
                     pushed[t][j].outcome = "returned"
         /\ \A i \in (k + 1)..Len(calls) : ~Touched(t, calls[i].id)
         /\ \A i \in 1..Len(calls) : AnswersTo(t, calls[i].id) = {}
         /\ messages[t] = sent[t][Len(sent[t])]
         /\ Len(sent[t]) = Len(received[t])
         /\ retval[t] = <<>>

\* the second of two calls of a response had a payload that does not decode,
\* after the first had sent its notification
C17_Witness ==
  /\ pc[1] = "failed"
  /\ error[1] # "APIError"
  /\ Len(received[1]) = 1
  /\ Len(LastCalls(1)) = 2
  /\ idx[1] = 2
  /\ Sends(LastCalls(1)[1])
  /\ PushedFor(1, <<1, 1>>) # {}

\* the first of two calls of a response failed and the second was left alone
C17_WitnessFirst ==
  /\ pc[1] = "failed"
  /\ error[1] # "APIError"
  /\ Len(LastCalls(1)) = 2
  /\ idx[1] = 1
  /\ Sends(LastCalls(1)[2])

(* -------------------------------- C18 --------------------------------- *)
\* the registered tools with a payload that decodes but does not fit them:
\* the required question or email is missing, a key is not a parameter, or
\* the decoded value is a list
MisfitShapes ==
  { <<"record_unknown_question", ArgEmail>>,
    <<"record_unknown_question", ArgEmpty>>,
    <<"record_unknown_question", ArgList>>,
    <<"record_user_details", ArgEmailExtra>>,
    <<"record_user_details", ArgEmpty>> }

Misfit(call) == <<call.function.name, call.function.arguments>> \in MisfitShapes

\* C18: a tool call of a registered tool whose payload decodes but does not
\* fit the tool's parameters never sends a notification and never gets a
\* tool result; once the loop has tried it the turn has failed with the
\* TypeError, has returned no text and has appended nothing of that response.
C18_MisfitPayloadFailsTurn ==
  \A t \in Turns :
    (Len(received[t]) >= 1 /\ AsksTools(t, Len(received[t]))) =>
      \A i \in 1..Len(LastCalls(t)) :
        Misfit(LastCalls(t)[i]) =>
          /\ idx[t] <= i
          /\ Len(results[t]) < i
          /\ PushedFor(t, LastCalls(t)[i].id) = {}
          /\ AnswersTo(t, LastCalls(t)[i].id) = {}
          /\ (idx[t] = i /\ pc[t] # "tools") =>
               /\ pc[t] = "failed"
               /\ error[t] = "TypeError"
               /\ retval[t] = <<>>
               /\ messages[t] = sent[t][Len(sent[t])]

\* the turn failed at a call of record_user_details whose payload carries a
\* key the function does not take, after an earlier round went through
C18_Witness ==
  /\ pc[1] = "failed"
  /\ error[1] = "TypeError"
  /\ Len(received[1]) = 2
  /\ LastCalls(1)[idx[1]].function.name = "record_user_details"
  /\ LastCalls(1)[idx[1]].function.arguments = ArgEmailExtra
  /\ Len(pushed[1]) = 1

\* the turn failed at a call of record_user_details without the email
C18_WitnessMissing ==
  /\ pc[1] = "failed"
  /\ error[1] = "TypeError"
  /\ LastCalls(1)[idx[1]].function.name = "record_user_details"
  /\ LastCalls(1)[idx[1]].function.arguments = ArgEmpty

(* -------------------------------- C19 --------------------------------- *)
\* C19: from the moment chat is called, through every endpoint call, tool
\* call and append, and when it returns or fails, the caller's history list
\* keeps its length and its elements in their order; what the turn appends
\* goes to its own messages only.
C19_CallerHistoryUntouched ==
  [][\A t \in Turns :
       pc[t] # "idle" =>
         /\ history'[t] = history[t]
         /\ Len(messages'[t]) >= Len(messages[t])
         /\ SubSeq(messages'[t], 2, Len(history[t]) + 1) = history[t]]_vars

\* the turn returned after two tool rounds, with four messages appended to
\* its own sequence, on a history of two messages
C19_Witness ==
  /\ pc[1] = "done"
  /\ Len(received[1]) = 3
  /\ Len(history[1]) = 2
  /\ history[1] \in Histories
  /\ Len(messages[1]) = Len(history[1]) + 2 + 4

\* the turn failed inside its second tool round, on a history of two messages
C19_WitnessFailed ==
  /\ pc[1] = "failed"
  /\ Len(received[1]) = 2
  /\ Len(history[1]) = 2
  /\ Len(messages[1]) = Len(history[1]) + 2 + 2

====
